---- MODULE Spec2Model ----
(***************************************************************************)
(* Model of src/app.py: the Flask endpoint slack_events, its two process-  *)
(* wide maps (handled_event_ids, conversation_states) and its three        *)
(* outbound calls (Slack chat.postMessage, OpenAI chat completion, Jira    *)
(* issue creation).  One action of Spec is one whole run of slack_events   *)
(* on one delivery; the outcome of every outbound call is chosen by the    *)
(* environment.                                                            *)
(***************************************************************************)
EXTENDS Integers, Sequences, FiniteSets, TLC

\* ------------------------------------------------------------------ bounds
\* Longest raw message text, in characters.
MaxLen == 1
\* Number of distinct event identifiers Slack may use.
MaxEvents == 4

\* ------------------------------------------------------------ text values
\* A text is a sequence of one-character strings.
Whitespace == {" "}
Chars == {" ", "h", "H"}
Digits == {"0", "1", "2", "3", "4", "5", "6", "7", "8", "9"}

Texts == UNION {[1..n -> Chars] : n \in 0..MaxLen}

\* str.strip() (src/app.py:61, :97): drop leading and trailing whitespace.
RECURSIVE LStrip(_)
LStrip(s) ==
    IF s # <<>> /\ Head(s) \in Whitespace THEN LStrip(Tail(s)) ELSE s

RECURSIVE RStrip(_)
RStrip(s) ==
    IF s # <<>> /\ s[Len(s)] \in Whitespace
    THEN RStrip(SubSeq(s, 1, Len(s) - 1))
    ELSE s

Strip(s) == RStrip(LStrip(s))

Upper(c) == IF c = "h" THEN "H" ELSE c
Lower(c) == IF c = "H" THEN "h" ELSE c

\* str.capitalize() (src/app.py:84): first character upper-cased, the rest
\* lower-cased.
Capitalize(s) ==
    [i \in 1..Len(s) |-> IF i = 1 THEN Upper(s[i]) ELSE Lower(s[i])]

\* ------------------------------------------------------------- deliveries
Users == {"U1", "U2"}
Channels == {"D1", "D2"}
Challenges == {"abc123", "xyz789"}

\* data.get("event_id") of a payload without the key (Python None).
None == 0
EventIds == 1..MaxEvents

Events ==
    [text : Texts, user : Users, channel : Channels]
    \cup [text : Texts, user : Users, channel : Channels, bot_id : {"B1"}]

\* Event callbacks, with and without an event_id.
EventDeliveries ==
    [event_id : EventIds, event : Events] \cup [event : Events]

\* url_verification payloads, with and without an event_id.
VerificationDeliveries ==
    [challenge : Challenges] \cup [challenge : Challenges, event_id : EventIds]

\* ----------------------------------------------------- collaborator replies
IsoDate == <<"2", "0", "2", "5", "-", "0", "7", "-", "0", "2">>
PaddedIsoDate == <<" ">> \o IsoDate \o <<" ">>
TenCharNonDate == <<"n", "o", "t", "-", "a", "-", "d", "a", "t", "e">>
SlashedDate == <<"2", "0", "2", "5", "/", "0", "7", "/", "0", "2">>
Unresolvable == <<"a", "s", "d", "f", "a", "s", "d", "f">>

\* message.content of the completion, before .strip().
GptReplies ==
    {IsoDate, PaddedIsoDate, TenCharNonDate, SlashedDate, Unresolvable}
GptErrors == {"APITimeoutError"}

HTTP_CREATED == 201
HTTP_BAD_REQUEST == 400
HTTP_OK == 200
HTTP_SERVER_ERROR == 500

\* Jira's answers: created, or refused with a body.
JiraResponses ==
    {[status_code |-> HTTP_CREATED, key |-> "BT-1", text |-> "created"],
     [status_code |-> HTTP_BAD_REQUEST, key |-> "", text |-> "priority is invalid"]}
JiraErrors == {"ConnectionError"}

\* ---------------------------------------------------------- Python dicts
\* A dict is a function; its keys are its DOMAIN.
EmptyDict == [k \in {} |-> 0]

\* d.get(k, default)
Get(d, k, default) == IF k \in DOMAIN d THEN d[k] ELSE default

\* d[k] = v
Put(d, k, v) == [x \in DOMAIN d \cup {k} |-> IF x = k THEN v ELSE d[x]]

\* d.pop(k, None)
Pop(d, k) == [x \in DOMAIN d \ {k} |-> d[x]]

\* ------------------------------------------------------------------ state
VARIABLES
    handled_event_ids,    \* src/app.py:14
    conversation_states,  \* src/app.py:43, a dict: user -> convo dict
    seen,                 \* history: event ids of the event callbacks handled
    asked,                \* history: per user, the prompt waiting for an answer
    answers,              \* history: per user, the trimmed answers given so far
    tickets,              \* history: per user, the ticket calls made for the
                          \* session they have now
    last                  \* history: <<>> or <<the request being answered>>

\* The same program with its requests served by overlapping threads (Flask's
\* development server, src/app.py:140, serves each request in its own thread).
\* A convo is then an object that several handlers may hold at once.
VARIABLES
    threads,              \* per serving thread: where its run of slack_events is
    heap,                 \* the convo dicts ever made: object id -> dict
    conversation_refs     \* src/app.py:43 with threads: user -> id of its convo

cvars == <<threads, heap, conversation_refs>>

vars == <<handled_event_ids, conversation_states, seen, asked, answers, tickets,
          last, cvars>>

Init ==
    /\ handled_event_ids = {}
    /\ conversation_states = EmptyDict
    /\ seen = {}
    /\ asked = [u \in Users |-> "none"]
    /\ answers = [u \in Users |-> <<>>]
    /\ tickets = [u \in Users |-> 0]
    /\ last = <<>>
    /\ threads = EmptyDict
    /\ heap = EmptyDict
    /\ conversation_refs = EmptyDict

\* --------------------------------------------------------------- responses
\* jsonify({"ok": True})
Ack == [status |-> HTTP_OK, json |-> [ok |-> TRUE]]

\* Flask's answer to an exception that leaves slack_events.
ServerError == [status |-> HTTP_SERVER_ERROR, json |-> [error |-> "Internal Server Error"]]

\* jsonify({"challenge": data["challenge"]}), 200
VerificationResponse(data) ==
    [status |-> HTTP_OK, json |-> [challenge |-> data.challenge]]

\* ----------------------------------------------------------- Slack messages
SummaryPrompt == [say |-> "What is the task summary?"]
DuePrompt == [say |-> "When is it due?"]
PriorityPrompt == [say |-> "How important is it? (e.g., Low, Medium, High)"]
DateWarning == [say |-> "Couldn't understand the due date."]
GptErrorMessage(e) == [say |-> "GPT error parsing due date", detail |-> e]
CreatedMessage(issue_key, summary) ==
    [say |-> "Created Jira issue", key |-> issue_key, summary |-> summary]
FailedMessage(text) == [say |-> "Failed to create Jira issue.", detail |-> text]

Prompts == {SummaryPrompt, DuePrompt, PriorityPrompt}

\* ------------------------------------------------------------ outbound calls
\* send_slack_message(channel_id, message); raised: requests.post raised.
SlackCall(channel_id, message, raised) ==
    [api |-> "chat.postMessage", channel |-> channel_id, text |-> message,
     raised |-> raised]

\* client.chat.completions.create(...) on the stored raw due text.
GptCall(due_raw, raised, reply, error) ==
    [api |-> "chat.completions", content |-> due_raw, raised |-> raised,
     reply |-> reply, error |-> error]

\* The Jira payload built from the conversation and the due date.
JiraPayload(convo, due_date) ==
    [project |-> "BT", summary |-> convo["summary"], duedate |-> due_date,
     priority |-> convo["priority"], issuetype |-> "Task"]

\* requests.post(f"{JIRA_BASE_URL}/rest/api/3/issue", ...): it raised `error`,
\* or returned `jira_resp`.
NoResponse == [status_code |-> None, key |-> "", text |-> ""]
JiraCall(jira_payload, raised, error, jira_resp) ==
    [api |-> "jira.issue", json |-> jira_payload, raised |-> raised,
     error |-> error, response |-> jira_resp]

\* ------------------------------------------------- the pieces of slack_events
\* A handler without the url_verification branch.
IsVerification_Never(data) == FALSE

IsVerification(data) == "challenge" \in DOMAIN data

EventIdOf(data) == Get(data, "event_id", None)

AlreadyHandled(event_id) == event_id \in handled_event_ids

\* A handler that checks the dedup set and never adds to it.
MarkHandled_Forgets(event_id) == handled_event_ids

MarkHandled(event_id) == handled_event_ids \cup {event_id}

EventOf(data) == Get(data, "event", EmptyDict)

\* A handler that stores the text as it came.
UserMsg_Unstripped(event) == Get(event, "text", <<>>)

UserMsg(event) == Strip(Get(event, "text", <<>>))

\* A handler that skips empty texts only, not bots.
SkipMessage_EmptyOnly(user_msg, event) == user_msg = <<>>

SkipMessage(user_msg, event) == user_msg = <<>> \/ "bot_id" \in DOMAIN event

ConvoOf(user_id) == Get(conversation_states, user_id, EmptyDict)

\* A handler that opens the conversation one step too far.
NewConversation_AtDue == [step |-> "ask_due"]

NewConversation == [step |-> "ask_summary"]

\* The "simple format check" on the stripped completion.
BadDueDate(due_date) ==
    Len(due_date) # 10 \/ ~(\E i \in 1..Len(due_date) : due_date[i] = "-")

\* An ask_priority branch that forgets to move the step on.
WithPriority_StepKept(convo, user_msg) ==
    Put(convo, "priority", Capitalize(user_msg))

\* The ask_priority branch's two assignments to convo.
WithPriority(convo, user_msg) ==
    Put(Put(convo, "priority", Capitalize(user_msg)), "step", "create_issue")

\* ------------------------------------------------------------- environment
\* Slack names events as it likes: a delivery carries no id, an id already
\* delivered (a retry), or the next unused id.
NextEventId == Cardinality(seen \cap EventIds) + 1

Deliverable(data) ==
    "event_id" \in DOMAIN data => data.event_id \in seen \cup {NextEventId}

\* ------------------------------------------------- what an observer records
\* The text between the first and the last character that is not a blank.
Inked(t) == {i \in 1..Len(t) : t[i] # " "}
Trimmed(t) ==
    IF Inked(t) = {}
    THEN <<>>
    ELSE SubSeq(t, CHOOSE i \in Inked(t) : \A j \in Inked(t) : i <= j,
                   CHOOSE i \in Inked(t) : \A j \in Inked(t) : i >= j)

\* The delivery is a user's message: an event callback, not a retry, not
\* from a bot, with some text.
IsUserMessage(data, delivered) ==
    /\ "challenge" \notin DOMAIN data
    /\ Get(data, "event_id", None) \notin delivered
    /\ "event" \in DOMAIN data
    /\ "bot_id" \notin DOMAIN data.event
    /\ Trimmed(data.event.text) # <<>>

\* The prompt among the messages posted, or "none".
PromptIn(calls) ==
    LET said == {calls[i].text : i \in {j \in 1..Len(calls) :
                                         calls[j].api = "chat.postMessage"}}
    IN  IF SummaryPrompt \in said THEN "summary"
        ELSE IF DuePrompt \in said THEN "due"
        ELSE IF PriorityPrompt \in said THEN "priority"
        ELSE "none"

\* The record of one run of slack_events.
Handled(data, calls, response) ==
    /\ last' = <<[data |-> data,
                  before |-> conversation_states,
                  handled_before |-> handled_event_ids,
                  seen_before |-> seen,
                  asked_before |-> asked,
                  answers_before |-> answers,
                  tickets_before |-> tickets,
                  calls |-> calls,
                  response |-> response]>>
    /\ seen' = IF "challenge" \in DOMAIN data
               THEN seen
               ELSE seen \cup {Get(data, "event_id", None)}
    /\ IF IsUserMessage(data, seen) \/ PromptIn(calls) # "none"
       THEN LET u == data.event.user
                t == Trimmed(data.event.text)
            IN  /\ asked' = [asked EXCEPT ![u] = PromptIn(calls)]
                /\ answers' = [answers EXCEPT ![u] =
                       IF PromptIn(calls) = "none" \/ asked[u] = "none" THEN <<>>
                       ELSE Append(answers[u], t)]
       ELSE UNCHANGED <<asked, answers>>
    /\ tickets' = [u \in Users |->
           IF u \notin DOMAIN conversation_states' THEN 0
           ELSE (IF u \in DOMAIN conversation_states THEN tickets[u] ELSE 0)
                + (IF "event" \in DOMAIN data /\ data.event.user = u
                   THEN Cardinality({i \in 1..Len(calls) : calls[i].api = "jira.issue"})
                   ELSE 0)]
    /\ UNCHANGED cvars

Deliveries == {d \in VerificationDeliveries \cup EventDeliveries : Deliverable(d)}

\* What Flask answers after a send that raised or returned.
AfterSend(raised) == IF raised THEN ServerError ELSE Ack

\* ------------------------------------------------------------------ actions
\* Each action but the last is one whole run of slack_events on the delivery
\* `data`, from the request's arrival to the response Flask gives; `last`
\* holds the request and what the run did until the request is torn down.
Idle == last = <<>>

\* src/app.py:51-52: the payload has a challenge.
UrlVerification ==
    /\ Idle
    /\ \E data \in Deliveries :
        /\ IsVerification(data)
        /\ UNCHANGED <<handled_event_ids, conversation_states>>
        /\ Handled(data, <<>>, VerificationResponse(data))

\* src/app.py:55-57: the event id is in handled_event_ids.
DuplicateEvent ==
    /\ Idle
    /\ \E data \in Deliveries :
        /\ ~IsVerification(data)
        /\ AlreadyHandled(EventIdOf(data))
        /\ UNCHANGED <<handled_event_ids, conversation_states>>
        /\ Handled(data, <<>>, Ack)

\* src/app.py:58-67: marked handled, then skipped as empty or from a bot.
SkippedEvent ==
    /\ Idle
    /\ \E data \in Deliveries :
        LET event == EventOf(data)
            user_msg == UserMsg(event)
        IN  /\ ~IsVerification(data)
            /\ ~AlreadyHandled(EventIdOf(data))
            /\ SkipMessage(user_msg, event)
            /\ handled_event_ids' = MarkHandled(EventIdOf(data))
            /\ UNCHANGED conversation_states
            /\ Handled(data, <<>>, Ack)

\* The guard of every run that reaches the conversation (src/app.py:70).
Reaches(data) ==
    /\ ~IsVerification(data)
    /\ ~AlreadyHandled(EventIdOf(data))
    /\ ~SkipMessage(UserMsg(EventOf(data)), EventOf(data))

\* src/app.py:72-74: no conversation yet.
StartConversation ==
    /\ Idle
    /\ \E data \in {d \in Deliveries : Reaches(d)}, raised \in BOOLEAN :
        LET event == EventOf(data)
            convo == ConvoOf(event.user)
        IN  /\ Reaches(data)
            /\ convo = EmptyDict
            /\ handled_event_ids' = MarkHandled(EventIdOf(data))
            /\ conversation_states' =
                   Put(conversation_states, event.user, NewConversation)
            /\ Handled(data,
                       <<SlackCall(event.channel, SummaryPrompt, raised)>>,
                       AfterSend(raised))

\* src/app.py:75-78
AnswerSummary ==
    /\ Idle
    /\ \E data \in {d \in Deliveries : Reaches(d)}, raised \in BOOLEAN :
        LET event == EventOf(data)
            convo == ConvoOf(event.user)
        IN  /\ Reaches(data)
            /\ convo # EmptyDict
            /\ convo["step"] = "ask_summary"
            /\ handled_event_ids' = MarkHandled(EventIdOf(data))
            /\ conversation_states' =
                   Put(conversation_states, event.user,
                       Put(Put(convo, "summary", UserMsg(event)), "step", "ask_due"))
            /\ Handled(data,
                       <<SlackCall(event.channel, DuePrompt, raised)>>,
                       AfterSend(raised))

\* src/app.py:79-82
AnswerDue ==
    /\ Idle
    /\ \E data \in {d \in Deliveries : Reaches(d)}, raised \in BOOLEAN :
        LET event == EventOf(data)
            convo == ConvoOf(event.user)
        IN  /\ Reaches(data)
            /\ convo # EmptyDict
            /\ convo["step"] = "ask_due"
            /\ handled_event_ids' = MarkHandled(EventIdOf(data))
            /\ conversation_states' =
                   Put(conversation_states, event.user,
                       Put(Put(convo, "due_raw", UserMsg(event)), "step", "ask_priority"))
            /\ Handled(data,
                       <<SlackCall(event.channel, PriorityPrompt, raised)>>,
                       AfterSend(raised))

\* The guard of the ask_priority branch (src/app.py:83).
Finalizes(data) ==
    /\ Reaches(data)
    /\ ConvoOf(EventOf(data).user) # EmptyDict
    /\ ConvoOf(EventOf(data).user)["step"] = "ask_priority"

\* conversation_states after src/app.py:84-85.
Finalizing(data) ==
    Put(conversation_states, EventOf(data).user,
        WithPriority(ConvoOf(EventOf(data).user), UserMsg(EventOf(data))))

\* The session map after a send: popped only if the send returned.
PoppedAfterSend(data, raised) ==
    IF raised THEN Finalizing(data) ELSE Pop(Finalizing(data), EventOf(data).user)

\* src/app.py:83-101: the completion call raises.
GptRaises ==
    /\ Idle
    /\ \E data \in {d \in Deliveries : Finalizes(d)}, e \in GptErrors, raised \in BOOLEAN :
        LET event == EventOf(data)
            convo == Finalizing(data)[event.user]
        IN  /\ Finalizes(data)
            /\ handled_event_ids' = MarkHandled(EventIdOf(data))
            /\ conversation_states' = PoppedAfterSend(data, raised)
            /\ Handled(data,
                       <<GptCall(convo["due_raw"], TRUE, <<>>, e),
                         SlackCall(event.channel, GptErrorMessage(e), raised)>>,
                       AfterSend(raised))

\* src/app.py:83-107: the completion fails the format check.
DueDateRejected ==
    /\ Idle
    /\ \E data \in {d \in Deliveries : Finalizes(d)}, reply \in GptReplies, raised \in BOOLEAN :
        LET event == EventOf(data)
            convo == Finalizing(data)[event.user]
            due_date == Strip(reply)
        IN  /\ Finalizes(data)
            /\ BadDueDate(due_date)
            /\ handled_event_ids' = MarkHandled(EventIdOf(data))
            /\ conversation_states' = PoppedAfterSend(data, raised)
            /\ Handled(data,
                       <<GptCall(convo["due_raw"], FALSE, reply, ""),
                         SlackCall(event.channel, DateWarning, raised)>>,
                       AfterSend(raised))

\* src/app.py:83-125: the Jira post raises; nothing catches it.
JiraRaises ==
    /\ Idle
    /\ \E data \in {d \in Deliveries : Finalizes(d)}, reply \in GptReplies, e \in JiraErrors :
        LET event == EventOf(data)
            convo == Finalizing(data)[event.user]
            due_date == Strip(reply)
        IN  /\ Finalizes(data)
            /\ ~BadDueDate(due_date)
            /\ handled_event_ids' = MarkHandled(EventIdOf(data))
            /\ conversation_states' = Finalizing(data)
            /\ Handled(data,
                       <<GptCall(convo["due_raw"], FALSE, reply, ""),
                         JiraCall(JiraPayload(convo, due_date), TRUE, e, NoResponse)>>,
                       ServerError)

\* The message sent after Jira answered (src/app.py:128-132).
JiraOutcomeMessage(jira_resp, convo) ==
    IF jira_resp.status_code = HTTP_CREATED
    THEN CreatedMessage(jira_resp.key, convo["summary"])
    ELSE FailedMessage(jira_resp.text)

\* src/app.py:83-134: Jira answers, created or not.
JiraAnswers ==
    /\ Idle
    /\ \E data \in {d \in Deliveries : Finalizes(d)}, reply \in GptReplies,
       jira_resp \in JiraResponses, raised \in BOOLEAN :
        LET event == EventOf(data)
            convo == Finalizing(data)[event.user]
            due_date == Strip(reply)
        IN  /\ Finalizes(data)
            /\ ~BadDueDate(due_date)
            /\ handled_event_ids' = MarkHandled(EventIdOf(data))
            /\ conversation_states' = PoppedAfterSend(data, raised)
            /\ Handled(data,
                       <<GptCall(convo["due_raw"], FALSE, reply, ""),
                         JiraCall(JiraPayload(convo, due_date), FALSE, "", jira_resp),
                         SlackCall(event.channel,
                                   JiraOutcomeMessage(jira_resp, convo), raised)>>,
                       AfterSend(raised))

\* src/app.py:72-85, 136: a conversation whose step matches no branch.
NoBranch ==
    /\ Idle
    /\ \E data \in {d \in Deliveries : Reaches(d)} :
        LET event == EventOf(data)
            convo == ConvoOf(event.user)
        IN  /\ Reaches(data)
            /\ convo # EmptyDict
            /\ convo["step"] \notin {"ask_summary", "ask_due", "ask_priority"}
            /\ handled_event_ids' = MarkHandled(EventIdOf(data))
            /\ UNCHANGED conversation_states
            /\ Handled(data, <<>>, Ack)

\* Flask tears the request context down after the response.
EndRequest ==
    /\ ~Idle
    /\ last' = <<>>
    /\ UNCHANGED <<handled_event_ids, conversation_states, seen, asked, answers,
                   tickets>>
    /\ UNCHANGED cvars

Next ==
    \/ UrlVerification
    \/ DuplicateEvent
    \/ SkippedEvent
    \/ StartConversation
    \/ AnswerSummary
    \/ AnswerDue
    \/ GptRaises
    \/ DueDateRejected
    \/ JiraRaises
    \/ JiraAnswers
    \/ NoBranch
    \/ EndRequest

Spec == Init /\ [][Next]_vars

\* ------------------------------------------------------ overlapping handlers
\* slack_events run by several threads at once. A step of a thread is one
\* access to what the threads share (handled_event_ids, conversation_states,
\* a convo dict) or one outbound call, together with the thread-local work
\* that follows it; the interpreter runs each such access without a break and
\* may switch threads between any two of them.
Threads == {"T1", "T2"}

\* How many event ids Slack uses while handlers overlap.
MaxConcEvents == 3
ConcEventIds == 1..MaxConcEvents
\* While handlers overlap each user writes in their own direct-message
\* channel and repeats their own word, so that a text or a channel tells
\* whose it is.
WordOf == [u \in Users |-> IF u = "U1" THEN <<"h">> ELSE <<"H">>]
DmOf == [u \in Users |-> IF u = "U1" THEN "D1" ELSE "D2"]
ConcEvents == {[text |-> WordOf[u], user |-> u, channel |-> DmOf[u]] : u \in Users}
ConcDeliveries == [event_id : ConcEventIds, event : ConcEvents]
ConcGptReplies == {IsoDate, Unresolvable}

\* `convo` when conversation_states.get(user_id, {}) found nothing.
NoObject == 0

\* A thread that serves no request.
IdleThread ==
    [pc |-> "idle", data |-> EmptyDict, convo |-> NoObject, due_date |-> <<>>,
     error |-> "", jira_resp |-> NoResponse, calls |-> <<>>,
     response |-> [status |-> None, json |-> [ok |-> FALSE]]]

\* Sessions the handlers left behind before the threads overlap: each is what
\* one user's earlier messages, handled one at a time, made of their convo.
SessionsAtRest(u) ==
    {[step |-> "ask_summary"],
     [step |-> "ask_due", summary |-> WordOf[u]],
     [step |-> "ask_priority", summary |-> WordOf[u], due_raw |-> WordOf[u]]}

FirstObject == [u \in Users |-> IF u = "U1" THEN 1 ELSE 2]

ConcInit ==
    /\ handled_event_ids = {}
    /\ conversation_states = EmptyDict
    /\ seen = {}
    /\ asked = [u \in Users |-> "none"]
    /\ answers = [u \in Users |-> <<>>]
    /\ tickets = [u \in Users |-> 0]
    /\ last = <<>>
    /\ threads = [t \in Threads |-> IdleThread]
    /\ \E talking \in SUBSET Users :
        \E session \in [talking -> UNION {SessionsAtRest(u) : u \in Users}] :
            /\ \A u \in talking : session[u] \in SessionsAtRest(u)
            /\ conversation_refs = [u \in talking |-> FirstObject[u]]
            /\ heap = [o \in {FirstObject[u] : u \in talking} |->
                          session[CHOOSE u \in talking : FirstObject[u] = o]]

\* The objects still referenced: the interpreter frees the others.
Live(h, refs, thr) ==
    [o \in {x \in DOMAIN h :
                \/ \E u \in DOMAIN refs : refs[u] = x
                \/ \E t \in DOMAIN thr : thr[t].convo = x} |-> h[o]]

\* The id of a new object.
Fresh(h) == CHOOSE o \in 1..(Cardinality(DOMAIN h) + 1) : o \notin DOMAIN h

Done(t, response) ==
    [threads EXCEPT ![t].pc = "done", ![t].response = response]
Goto(t, pc) == [threads EXCEPT ![t].pc = pc]

ThreadEvent(t) == EventOf(threads[t].data)

\* The sequential history is not kept while threads overlap.
NoHistory == UNCHANGED <<conversation_states, seen, asked, answers, tickets, last>>

\* Slack names events as it likes: a delivery carries an id it has used
\* before (a retry) or the next unused id.
UsedEventIds ==
    handled_event_ids \cup
    {threads[t].data.event_id : t \in {x \in Threads : threads[x].pc # "idle"}}
ConcDeliverable(data) ==
    data.event_id \in UsedEventIds \cup {Cardinality(UsedEventIds) + 1}

\* The server hands a request to the first thread that is free.
ThreadRank == [t \in Threads |-> IF t = "T1" THEN 1 ELSE 2]

\* src/app.py:45-55: a thread takes a request.
Receive(t) ==
    /\ threads[t].pc = "idle"
    /\ \A s \in Threads : ThreadRank[s] < ThreadRank[t] => threads[s].pc # "idle"
    /\ \E data \in ConcDeliveries :
        /\ ConcDeliverable(data)
        /\ threads' = [threads EXCEPT ![t] =
                          [IdleThread EXCEPT !.pc = "dedup", !.data = data]]
    /\ UNCHANGED <<handled_event_ids, heap, conversation_refs>>
    /\ NoHistory

\* A handler that goes from the membership test straight to the message,
\* leaving the id unmarked.
Dedup_Unmarked(t) ==
    /\ threads[t].pc = "dedup"
    /\ threads' = IF AlreadyHandled(EventIdOf(threads[t].data))
                  THEN Done(t, Ack)
                  ELSE Goto(t, "get_convo")
    /\ UNCHANGED <<handled_event_ids, heap, conversation_refs>>
    /\ NoHistory

\* src/app.py:56-57: the membership test.
Dedup(t) ==
    /\ threads[t].pc = "dedup"
    /\ threads' = IF AlreadyHandled(EventIdOf(threads[t].data))
                  THEN Done(t, Ack)
                  ELSE Goto(t, "mark")
    /\ UNCHANGED <<handled_event_ids, heap, conversation_refs>>
    /\ NoHistory

\* src/app.py:58-67: the add, then the bot-or-blank test on the thread's own
\* values.
Mark(t) ==
    /\ threads[t].pc = "mark"
    /\ handled_event_ids' = MarkHandled(EventIdOf(threads[t].data))
    /\ threads' = IF SkipMessage(UserMsg(ThreadEvent(t)), ThreadEvent(t))
                  THEN Done(t, Ack)
                  ELSE Goto(t, "get_convo")
    /\ UNCHANGED <<heap, conversation_refs>>
    /\ NoHistory

\* A lookup that keeps one conversation for everybody.
ConvoRef_Shared(user_id) == Get(conversation_refs, "U1", NoObject)

\* conversation_states.get(user_id, {}), as a reference to the dict.
ConvoRef(user_id) == Get(conversation_refs, user_id, NoObject)

\* src/app.py:70-72: convo = conversation_states.get(user_id, {}).
GetConvo(t) ==
    /\ threads[t].pc = "get_convo"
    /\ LET convo == ConvoRef(ThreadEvent(t).user)
       IN  threads' = [threads EXCEPT
               ![t].convo = convo,
               ![t].pc = IF convo = NoObject THEN "new_convo" ELSE "test_summary"]
    /\ UNCHANGED <<handled_event_ids, heap, conversation_refs>>
    /\ NoHistory

\* src/app.py:73: conversation_states[user_id] = {"step": "ask_summary"}.
NewConvo(t) ==
    /\ threads[t].pc = "new_convo"
    /\ threads' = Goto(t, "send_summary_prompt")
    /\ conversation_refs' = Put(conversation_refs, ThreadEvent(t).user, Fresh(heap))
    /\ heap' = Live(Put(heap, Fresh(heap), NewConversation),
                    conversation_refs', threads')
    /\ UNCHANGED handled_event_ids
    /\ NoHistory

\* A test of convo["step"] (src/app.py:75, 79, 83).
TestStep(t, pc, step, then, else) ==
    /\ threads[t].pc = pc
    /\ threads' = IF heap[threads[t].convo]["step"] = step
                  THEN Goto(t, then)
                  ELSE else
    /\ UNCHANGED <<handled_event_ids, heap, conversation_refs>>
    /\ NoHistory

\* An assignment convo[key] = value (src/app.py:76-77, 80-81, 84-85).
SetItem(t, pc, key, value, then) ==
    /\ threads[t].pc = pc
    /\ threads' = Goto(t, then)
    /\ heap' = [heap EXCEPT ![threads[t].convo] = Put(@, key, value)]
    /\ UNCHANGED <<handled_event_ids, conversation_refs>>
    /\ NoHistory

TestSummary(t) ==
    TestStep(t, "test_summary", "ask_summary", "set_summary", Goto(t, "test_due"))
SetSummary(t) ==
    SetItem(t, "set_summary", "summary", UserMsg(ThreadEvent(t)), "set_step_due")
SetStepDue(t) ==
    SetItem(t, "set_step_due", "step", "ask_due", "send_due_prompt")
TestDue(t) ==
    TestStep(t, "test_due", "ask_due", "set_due_raw", Goto(t, "test_priority"))
SetDueRaw(t) ==
    SetItem(t, "set_due_raw", "due_raw", UserMsg(ThreadEvent(t)), "set_step_priority")
SetStepPriority(t) ==
    SetItem(t, "set_step_priority", "step", "ask_priority", "send_priority_prompt")
\* No branch left: the handler goes to its last line, src/app.py:136.
TestPriority(t) ==
    TestStep(t, "test_priority", "ask_priority", "set_priority", Done(t, Ack))
SetPriority(t) ==
    SetItem(t, "set_priority", "priority", Capitalize(UserMsg(ThreadEvent(t))),
            "set_step_create")
SetStepCreate(t) ==
    SetItem(t, "set_step_create", "step", "create_issue", "call_gpt")

\* src/app.py:88-104: the completion call on convo["due_raw"], then the
\* format check on the thread's own due_date.
CallGpt(t) ==
    /\ threads[t].pc = "call_gpt"
    /\ LET due_raw == heap[threads[t].convo]["due_raw"]
       IN  \/ \E e \in GptErrors :
                threads' = [threads EXCEPT
                    ![t].calls = Append(@, GptCall(due_raw, TRUE, <<>>, e)),
                    ![t].error = e,
                    ![t].pc = "send_gpt_error"]
           \/ \E reply \in ConcGptReplies :
                threads' = [threads EXCEPT
                    ![t].calls = Append(@, GptCall(due_raw, FALSE, reply, "")),
                    ![t].due_date = Strip(reply),
                    ![t].pc = IF BadDueDate(Strip(reply))
                              THEN "send_warning" ELSE "call_jira"]
    /\ UNCHANGED <<handled_event_ids, heap, conversation_refs>>
    /\ NoHistory

\* src/app.py:110-128: the payload from convo, then the post to Jira.
CallJira(t) ==
    /\ threads[t].pc = "call_jira"
    /\ LET jira_payload == JiraPayload(heap[threads[t].convo], threads[t].due_date)
       IN  \/ \E e \in JiraErrors :
                threads' = [threads EXCEPT
                    ![t].calls = Append(@, JiraCall(jira_payload, TRUE, e, NoResponse)),
                    ![t].pc = "done",
                    ![t].response = ServerError]
           \/ \E jira_resp \in JiraResponses :
                threads' = [threads EXCEPT
                    ![t].calls = Append(@, JiraCall(jira_payload, FALSE, "", jira_resp)),
                    ![t].jira_resp = jira_resp,
                    ![t].pc = "send_outcome"]
    /\ UNCHANGED <<handled_event_ids, heap, conversation_refs>>
    /\ NoHistory

\* Where a handler calls send_slack_message, and with what.
SendPcs ==
    {"send_summary_prompt", "send_due_prompt", "send_priority_prompt",
     "send_gpt_error", "send_warning", "send_outcome"}
MessageAt(t) ==
    CASE threads[t].pc = "send_summary_prompt" -> SummaryPrompt
      [] threads[t].pc = "send_due_prompt" -> DuePrompt
      [] threads[t].pc = "send_priority_prompt" -> PriorityPrompt
      [] threads[t].pc = "send_gpt_error" -> GptErrorMessage(threads[t].error)
      [] threads[t].pc = "send_warning" -> DateWarning
      [] threads[t].pc = "send_outcome" ->
            JiraOutcomeMessage(threads[t].jira_resp, heap[threads[t].convo])

\* What follows a send that returned: the pop after an outcome message, the
\* last line after a prompt.
AfterSendPc(pc) ==
    IF pc \in {"send_gpt_error", "send_warning", "send_outcome"}
    THEN "pop" ELSE "done"

\* src/app.py:35-40 called from 74, 78, 82, 99, 105, 130, 132.
SendSlackMessage(t) ==
    /\ threads[t].pc \in SendPcs
    /\ \E raised \in BOOLEAN :
        threads' = [threads EXCEPT
            ![t].calls = Append(@, SlackCall(ThreadEvent(t).channel,
                                             MessageAt(t), raised)),
            ![t].pc = IF raised THEN "done" ELSE AfterSendPc(threads[t].pc),
            ![t].response = IF raised THEN ServerError
                            ELSE IF AfterSendPc(threads[t].pc) = "done" THEN Ack
                            ELSE @]
    /\ UNCHANGED <<handled_event_ids, heap, conversation_refs>>
    /\ NoHistory

\* src/app.py:100, 106, 134: conversation_states.pop(user_id, None).
PopConvo(t) ==
    /\ threads[t].pc = "pop"
    /\ threads' = Done(t, Ack)
    /\ conversation_refs' = Pop(conversation_refs, ThreadEvent(t).user)
    /\ heap' = Live(heap, conversation_refs', threads')
    /\ UNCHANGED handled_event_ids
    /\ NoHistory

\* Flask sends the response and the thread is free again.
Return(t) ==
    /\ threads[t].pc = "done"
    /\ threads' = [threads EXCEPT ![t] = IdleThread]
    /\ heap' = Live(heap, conversation_refs, threads')
    /\ UNCHANGED <<handled_event_ids, conversation_refs>>
    /\ NoHistory

ConcNext ==
    \E t \in Threads :
        \/ Receive(t)
        \/ Dedup(t)
        \/ Mark(t)
        \/ GetConvo(t)
        \/ NewConvo(t)
        \/ TestSummary(t)
        \/ SetSummary(t)
        \/ SetStepDue(t)
        \/ TestDue(t)
        \/ SetDueRaw(t)
        \/ SetStepPriority(t)
        \/ TestPriority(t)
        \/ SetPriority(t)
        \/ SetStepCreate(t)
        \/ CallGpt(t)
        \/ CallJira(t)
        \/ SendSlackMessage(t)
        \/ PopConvo(t)
        \/ Return(t)

SpecConc == ConcInit /\ [][ConcNext]_vars

\* ==================================================================== claims
\* The request being answered, its sender, and the calls of each kind.
Request == last[1]
Sender == Request.data.event.user
CallsTo(api) == SelectSeq(Request.calls, LAMBDA c : c.api = api)
SlackCalls == CallsTo("chat.postMessage")
GptCalls == CallsTo("chat.completions")
JiraCalls == CallsTo("jira.issue")

\* A 10-character ISO calendar date, YYYY-MM-DD.
IsIsoCalendarDate(s) ==
    /\ Len(s) = 10
    /\ \A i \in 1..10 : IF i \in {5, 8} THEN s[i] = "-" ELSE s[i] \in Digits

\* "high" gives "High".
Capitalized(t) ==
    [i \in 1..Len(t) |->
        IF i = 1 THEN (IF t[i] = "h" THEN "H" ELSE t[i])
        ELSE (IF t[i] = "H" THEN "h" ELSE t[i])]

\* The request is an event callback, not a url_verification.
IsEventCallback == last # <<>> /\ "challenge" \notin DOMAIN Request.data

\* The request is a user's message answering the priority prompt.
AnswersPriority ==
    /\ last # <<>>
    /\ IsUserMessage(Request.data, Request.seen_before)
    /\ Request.asked_before[Sender] = "priority"
    /\ Len(Request.answers_before[Sender]) = 2

\* The resolver was asked and its reply is a well-formed date.
DueDateResolved ==
    /\ Len(GptCalls) = 1
    /\ ~GptCalls[1].raised
    /\ IsIsoCalendarDate(Trimmed(GptCalls[1].reply))

\* The resolver was asked and raised, or replied something that is no date.
DueDateUnresolved ==
    /\ Len(GptCalls) = 1
    /\ GptCalls[1].raised \/ ~IsIsoCalendarDate(Trimmed(GptCalls[1].reply))

\* ---------------------------------------------------------------------- C1
\* C1: once an event callback carrying the identifier e has been handled,
\* every later event callback carrying e is acknowledged with every session
\* as it was and no outbound call; and no identifier ever leaves the dedup
\* set.
C1_Idempotent ==
    last # <<>> =>
        /\ Request.handled_before \subseteq handled_event_ids
        /\ ( /\ IsEventCallback
             /\ "event_id" \in DOMAIN Request.data
             /\ Request.data.event_id \in Request.seen_before )
           => /\ conversation_states = Request.before
              /\ Request.calls = <<>>
              /\ Request.response = [status |-> 200, json |-> [ok |-> TRUE]]

\* A retry of a user's message that would otherwise have answered a prompt.
C1_Witness ==
    /\ IsEventCallback
    /\ "event_id" \in DOMAIN Request.data
    /\ Request.data.event_id \in Request.seen_before
    /\ IsUserMessage(Request.data, {})
    /\ Sender \in DOMAIN Request.before
    /\ Request.before[Sender]["step"] = "ask_due"

\* ---------------------------------------------------------------------- C2
\* C2: when a user's message m3 answers the priority prompt, after m1
\* answered the summary prompt and m2 the due-date prompt, the resolver
\* returns a well-formed date for m2 and Jira reports the issue created, then
\* the run made exactly one ticket-creation call, with summary m1, the
\* resolved date and the capitalized m3, posted exactly one message, the
\* success message naming the created issue, and left the user no session.
C2_FullDialogue ==
    ( /\ AnswersPriority
      /\ "event_id" \in DOMAIN Request.data
      /\ DueDateResolved
      /\ Len(JiraCalls) >= 1
      /\ ~JiraCalls[1].raised
      /\ JiraCalls[1].response.status_code = 201 )
    => /\ GptCalls[1].content = Request.answers_before[Sender][2]
       /\ Len(JiraCalls) = 1
       /\ JiraCalls[1].json.summary = Request.answers_before[Sender][1]
       /\ JiraCalls[1].json.duedate = Trimmed(GptCalls[1].reply)
       /\ JiraCalls[1].json.priority = Capitalized(Trimmed(Request.data.event.text))
       /\ Len(SlackCalls) = 1
       /\ SlackCalls[1].text =
              [say |-> "Created Jira issue",
               key |-> JiraCalls[1].response.key,
               summary |-> Request.answers_before[Sender][1]]
       /\ Sender \notin DOMAIN conversation_states

\* ---------------------------------------------------------------------- C3
\* C3: the first user message (not blank, not from a bot, event id not yet
\* handled) of a user without a session creates that user's session in step
\* ask_summary and makes exactly one outbound call, the post of the
\* task-summary prompt to the message's channel.
C3_FirstMessage ==
    ( /\ last # <<>>
      /\ IsUserMessage(Request.data, Request.seen_before)
      /\ Sender \notin DOMAIN Request.before )
    => /\ Sender \in DOMAIN conversation_states
       /\ conversation_states[Sender] = [step |-> "ask_summary"]
       /\ Len(Request.calls) = 1
       /\ Request.calls[1].api = "chat.postMessage"
       /\ Request.calls[1].channel = Request.data.event.channel
       /\ Request.calls[1].text = [say |-> "What is the task summary?"]

\* A first message while another user is in the middle of a dialogue.
C3_Witness ==
    /\ last # <<>>
    /\ IsUserMessage(Request.data, Request.seen_before)
    /\ Sender \notin DOMAIN Request.before
    /\ Request.before # EmptyDict

\* ---------------------------------------------------------------------- C4
\* C4: when a user's message answers the priority prompt, the due date
\* resolves and the ticket-creation call fails (it raises, or Jira answers
\* anything but created), the run made that one ticket-creation call only,
\* posted exactly one message, the failure message carrying the raw failure
\* detail, and left the user no session.
C4_TicketFailure ==
    ( /\ AnswersPriority
      /\ DueDateResolved
      /\ Len(JiraCalls) >= 1
      /\ JiraCalls[1].raised \/ JiraCalls[1].response.status_code # 201 )
    => /\ Len(JiraCalls) = 1
       /\ Len(SlackCalls) = 1
       /\ SlackCalls[1].text =
              [say |-> "Failed to create Jira issue.",
               detail |-> IF JiraCalls[1].raised
                          THEN JiraCalls[1].error
                          ELSE JiraCalls[1].response.text]
       /\ Sender \notin DOMAIN conversation_states

\* ---------------------------------------------------------------------- C5
\* C5: when a user's message answers the priority prompt and the stored due
\* text does not resolve (the resolver raises, or replies something that is
\* not a date), the run made no ticket-creation call, posted exactly one
\* message, left the user no session and answered the request normally.
C5_DateFailure ==
    (AnswersPriority /\ DueDateUnresolved)
    => /\ Len(JiraCalls) = 0
       /\ Len(SlackCalls) = 1
       /\ Sender \notin DOMAIN conversation_states
       /\ Request.response.status = 200

\* ---------------------------------------------------------------------- C6
\* C6: an event from a bot, or with an empty or blank text, leaves every
\* session as it was and makes no outbound call.
C6_BotOrBlank ==
    ( /\ IsEventCallback
      /\ "event" \in DOMAIN Request.data
      /\ \/ "bot_id" \in DOMAIN Request.data.event
         \/ \A i \in 1..Len(Request.data.event.text) :
                Request.data.event.text[i] = " " )
    => /\ conversation_states = Request.before
       /\ Request.calls = <<>>

\* A bot's non-blank message, first delivery, to the channel of a user who is
\* waiting at the priority prompt.
C6_Witness ==
    /\ IsEventCallback
    /\ "bot_id" \in DOMAIN Request.data.event
    /\ Inked(Request.data.event.text) # {}
    /\ Get(Request.data, "event_id", None) \notin Request.seen_before
    /\ Sender \in DOMAIN Request.before
    /\ Request.before[Sender]["step"] = "ask_priority"

\* ---------------------------------------------------------------------- C7
\* C7: a payload with a challenge is answered with exactly that challenge,
\* and the dedup set, every session and the outbound calls are untouched,
\* also when the payload carries an event_id.
C7_Verification ==
    (last # <<>> /\ "challenge" \in DOMAIN Request.data)
    => /\ Request.response =
              [status |-> 200, json |-> [challenge |-> Request.data.challenge]]
       /\ handled_event_ids = Request.handled_before
       /\ conversation_states = Request.before
       /\ Request.calls = <<>>

\* A verification payload that carries an event_id never delivered before,
\* while a session exists.
C7_Witness ==
    /\ last # <<>>
    /\ "challenge" \in DOMAIN Request.data
    /\ "event_id" \in DOMAIN Request.data
    /\ Request.data.event_id \notin Request.seen_before
    /\ Request.before # EmptyDict

\* ---------------------------------------------------------------------- C8
\* C8: an event callback without an event identifier is acknowledged with
\* every session as it was and no outbound call, the first one included.
C8_MissingEventId ==
    (IsEventCallback /\ "event_id" \notin DOMAIN Request.data)
    => /\ Request.response = [status |-> 200, json |-> [ok |-> TRUE]]
       /\ conversation_states = Request.before
       /\ Request.calls = <<>>

\* ---------------------------------------------------------------------- C9
\* C9: every event callback is answered with the successful acknowledgment,
\* however the dialogue ends.
C9_AlwaysAcknowledged ==
    IsEventCallback
    => Request.response = [status |-> 200, json |-> [ok |-> TRUE]]

\* --------------------------------------------------------------------- C10
\* C10: between runs of the handler, a user has a session exactly when a
\* prompt posted for that user is still unanswered, and no session is in
\* step create_issue.
C10_SessionInvariant ==
    \A u \in Users :
        /\ u \in DOMAIN conversation_states <=> asked[u] # "none"
        /\ u \in DOMAIN conversation_states
               => conversation_states[u]["step"] # "create_issue"

\* --------------------------------------------------------------------- C13
\* C13: a session never outlives a terminal outcome. Once the run on the
\* message that answers the priority prompt has ended (ticket created, date
\* not understood, ticket refused, or a call that raised), the user has no
\* session; and a user's message that finds no prompt waiting for it starts
\* a new dialogue, in step ask_summary with the summary prompt posted.
C13_NoLingeringSession ==
    /\ AnswersPriority => Sender \notin DOMAIN conversation_states
    /\ ( /\ last # <<>>
         /\ IsUserMessage(Request.data, Request.seen_before)
         /\ Request.asked_before[Sender] = "none" )
       => /\ Sender \in DOMAIN conversation_states
          /\ conversation_states[Sender] = [step |-> "ask_summary"]
          /\ Len(SlackCalls) = 1
          /\ SlackCalls[1].text = [say |-> "What is the task summary?"]

\* --------------------------------------------------------------------- C15
\* The ticket calls made so far for the session the sender had when the
\* request arrived.
TicketsBefore ==
    IF Sender \in DOMAIN Request.before THEN Request.tickets_before[Sender] ELSE 0

\* C15: with deliveries handled one at a time, a run makes a ticket-creation
\* call only when it found the sender's session in step ask_priority, and
\* from its creation to its removal a session sees at most one such call:
\* so there are never more ticket calls than dialogues that reached the
\* final step.
C15_OneTicketPerSession ==
    IsEventCallback =>
        /\ TicketsBefore + Len(JiraCalls) <= 1
        /\ JiraCalls # <<>> =>
              /\ Sender \in DOMAIN Request.before
              /\ Request.before[Sender]["step"] = "ask_priority"
              /\ AnswersPriority

\* A run on the session that an earlier run left behind after its ticket
\* call: it makes no second call.
C15_Witness ==
    /\ IsEventCallback
    /\ IsUserMessage(Request.data, Request.seen_before)
    /\ TicketsBefore = 1
    /\ JiraCalls = <<>>
    /\ tickets[Sender] = 1

\* --------------------------------------------------------------------- C17
\* C17: the handler goes on to the ticket call exactly when the resolver's
\* trimmed reply has the shape YYYY-MM-DD; any other reply, a 10-character
\* string that merely holds a hyphen included, is a date-understanding
\* failure: the date warning is the only message and no ticket call is made.
C17_DateShape ==
    (IsEventCallback /\ Len(GptCalls) = 1 /\ ~GptCalls[1].raised)
    => IF IsIsoCalendarDate(Trimmed(GptCalls[1].reply))
       THEN Len(JiraCalls) = 1
       ELSE /\ JiraCalls = <<>>
            /\ Len(SlackCalls) = 1
            /\ SlackCalls[1].text = [say |-> "Couldn't understand the due date."]

\* --------------------------------------------------------------------- C18
\* The step a session is in once the prompt `message` has been sent.
StepAfter(message) ==
    IF message = [say |-> "What is the task summary?"] THEN "ask_summary"
    ELSE IF message = [say |-> "When is it due?"] THEN "ask_due"
    ELSE IF message = [say |-> "How important is it? (e.g., Low, Medium, High)"]
    THEN "ask_priority"
    ELSE "none"

\* C18: a failure of the message sender does not reach the conversation
\* flow: when a send raises, the sender's session is where a send that
\* returns leaves it, advanced to the prompt's step after a prompt and
\* removed after an outcome message.
C18_SendFailureIgnored ==
    (IsEventCallback /\ SlackCalls # <<>> /\ SlackCalls[Len(SlackCalls)].raised)
    => LET step == StepAfter(SlackCalls[Len(SlackCalls)].text)
       IN  IF step = "none"
           THEN Sender \notin DOMAIN conversation_states
           ELSE /\ Sender \in DOMAIN conversation_states
                /\ conversation_states[Sender]["step"] = step

\* --------------------------------------------------------------------- C20
\* The answers a session in `step` holds.
FieldsAt(step) ==
    IF step = "ask_summary" THEN {"step"}
    ELSE IF step = "ask_due" THEN {"step", "summary"}
    ELSE IF step = "ask_priority" THEN {"step", "summary", "due_raw"}
    ELSE {"step", "summary", "due_raw", "priority"}

Serving == {t \in Threads : threads[t].pc # "idle"}
UserOf(t) == threads[t].data.event.user
ThreadCalls(t, api) == SelectSeq(threads[t].calls, LAMBDA c : c.api = api)

\* The handler in thread t is past the dedup step: it is about to read or
\* change a session, is doing so, or has ended after an outbound call.
Proceeded(t) ==
    \/ threads[t].pc \notin {"idle", "dedup", "mark", "done"}
    \/ threads[t].pc = "done" /\ threads[t].calls # <<>>

\* C11: the dedup check and the mark are one atomic step with respect to
\* concurrent handlers: of two handlers serving deliveries with the same event
\* id at the same time, at most one proceeds past the dedup step.
C11_AtomicDedup ==
    \A t \in Serving, s \in Serving :
        (t # s /\ threads[t].data.event_id = threads[s].data.event_id)
            => ~(Proceeded(t) /\ Proceeded(s))

\* The handler in thread t got a live convo, matched none of its steps and
\* ended without a word to the user.
Dropped(t) ==
    /\ threads[t].pc = "done"
    /\ threads[t].response = Ack
    /\ threads[t].convo # NoObject
    /\ threads[t].calls = <<>>

\* The handler in thread t took the ask_priority branch to its end: the
\* outcome message is sent and the session popped.
Finalized(t) ==
    /\ threads[t].pc = "done"
    /\ threads[t].response = Ack
    /\ ThreadCalls(t, "chat.completions") # <<>>

\* C12: handlers for the same user are serialized, so that two overlapping
\* deliveries of one user leave what handling them one after the other would
\* leave; in particular a message that arrives while another handler is
\* finalizing the user's dialogue is not silently lost. Handled one after
\* the other, a message is dropped only on a convo that a failed handler
\* left behind, which no handler ever finalizes: so no convo is both
\* finalized by one handler and the cause of another's silence.
C12_PerUserSerialized ==
    \A t \in Serving, s \in Serving :
        (t # s /\ UserOf(t) = UserOf(s) /\ threads[t].convo = threads[s].convo)
            => ~(Dropped(t) /\ Finalized(s))

\* The step of u's stored session, "none" when u has no session.
StepOf(u) ==
    IF u \in DOMAIN conversation_refs
    THEN heap[conversation_refs[u]]["step"]
    ELSE "none"

\* The moves the dialogue allows.
LinearMoves ==
    {<<"none", "ask_summary">>, <<"ask_summary", "ask_due">>,
     <<"ask_due", "ask_priority">>, <<"ask_priority", "create_issue">>,
     <<"create_issue", "none">>}

\* C14: in every behaviour, overlapping handlers of one user included, the
\* step of a user's session changes only from none to ask_summary, from
\* ask_summary to ask_due, from ask_due to ask_priority, and from
\* ask_priority through create_issue to removal: never backward, never
\* skipping a step.
C14_LinearSteps ==
    [][\A u \in Users :
          StepOf(u)' # StepOf(u) => <<StepOf(u), StepOf(u)'>> \in LinearMoves]_vars

\* The handler in thread t has not yet passed the dedup step.
BeforeMark(t) == threads[t].pc \in {"dedup", "mark"}

\* C16: the event id of a delivery is in the dedup set before its handler
\* first reads or changes a session or makes an outbound call, and so also
\* when the handler has failed in the middle; a redelivery of an id in the
\* set is absorbed: acknowledged, with no call and every session as it was.
C16_MarkBeforeProcess ==
    /\ [](\A t \in Serving :
            ~BeforeMark(t) => threads[t].data.event_id \in handled_event_ids)
    /\ [][\A t \in Serving :
            ( /\ threads[t].pc = "dedup"
              /\ threads[t].data.event_id \in handled_event_ids
              /\ threads'[t] # threads[t] )
            => /\ threads'[t].pc = "done"
               /\ threads'[t].response = [status |-> 200, json |-> [ok |-> TRUE]]
               /\ threads'[t].calls = <<>>
               /\ UNCHANGED <<handled_event_ids, heap, conversation_refs>>]_vars

\* One handler failed after an outbound call; the same event came again and
\* was absorbed.
C16_Witness ==
    \E t \in Serving, s \in Serving :
        /\ t # s
        /\ threads[t].data.event_id = threads[s].data.event_id
        /\ threads[t].pc = "done"
        /\ threads[t].response.status = 500
        /\ threads[t].calls # <<>>
        /\ threads[s].pc = "done"
        /\ threads[s].response.status = 200
        /\ threads[s].calls = <<>>
        /\ threads[s].convo = NoObject

\* u's stored session, as a value.
SessionOf(u) ==
    IF u \in DOMAIN conversation_refs THEN heap[conversation_refs[u]] ELSE EmptyDict

\* The user whose delivery thread t serves during a step.
ActingUser(t) ==
    IF threads[t].pc = "idle" THEN threads'[t].data.event.user ELSE UserOf(t)

\* What u said, before the threads overlapped or in a delivery: always u's
\* own word.
SaidBy(u) == IF u = "U1" THEN <<"h">> ELSE <<"H">>

\* C19: users are independent, whether their deliveries are handled one
\* after the other or at the same time. A step of the handler of u's
\* delivery leaves every other user's session as it was; the handler posts
\* messages only to the channel of its delivery; and the resolver call and
\* the ticket it makes carry only what u said.
C19_CrossUserIndependence ==
    /\ [][\A t \in Threads :
            threads'[t] # threads[t]
            => \A v \in Users \ {ActingUser(t)} : SessionOf(v)' = SessionOf(v)]_vars
    /\ [](\A t \in Serving :
            \A i \in 1..Len(threads[t].calls) :
                LET c == threads[t].calls[i]
                IN  /\ c.api = "chat.postMessage"
                        => c.channel = threads[t].data.event.channel
                    /\ c.api = "chat.completions" => c.content = SaidBy(UserOf(t))
                    /\ c.api = "jira.issue"
                        => /\ c.json.summary = SaidBy(UserOf(t))
                           /\ c.json.priority = Capitalized(SaidBy(UserOf(t))))

\* Two users' handlers at work at the same time, each having posted its
\* ticket while the other user has a session.
C19_Witness ==
    \E t \in Serving, s \in Serving :
        /\ UserOf(t) # UserOf(s)
        /\ ThreadCalls(t, "jira.issue") # <<>>
        /\ ThreadCalls(s, "jira.issue") # <<>>
        /\ threads[t].pc = "pop"
        /\ threads[s].pc = "pop"

====
